---- MODULE Spec2Model ----
(***************************************************************************)
(* ReviewsView (lib/views/reviews-view.js): the pull-request "Reviews"     *)
(* panel.  The model covers the refresh button and its subscription, the   *)
(* per-thread reply drafts and their submission, and the translation of a  *)
(* root comment's diff position with the two navigation buttons.           *)
(***************************************************************************)
EXTENDS Integers, Sequences, FiniteSets, TLC

VARIABLES
    phase,               \* "constructed" | "mounted" | "unmounted"
    event,               \* the handler that ran last: [op, arg]
    isRefreshing,        \* this.state.isRefreshing
    subs,                \* this.subs: the subscriptions held by the CompositeDisposable
    refetches,           \* one record per call of props.refetch: [done, disposed]
    commentThreads,      \* props.commentThreads: sequence of [thread, comments]
    postingToThreadID,   \* props.postingToThreadID: a thread id, Null or Undefined
    commentTranslations, \* props.commentTranslations: [isNull, map]
    checkoutOp,          \* props.checkoutOp: [enabled, why]
    replyHolders,        \* this.replyHolders: thread id -> draft text or NoEditor
    pending,             \* props.addSingleComment calls whose callbacks have not run
    view,                \* what the last render produced, one record per thread
    summaries,           \* props.summaries: sequence of [id, state, bodyHTML]
    threadIDsOpen,       \* props.threadIDsOpen: the set of expanded thread ids
    threadRequests,      \* showThreadID/hideThreadID calls the owner has not applied
    threadHolders,       \* this.threadHolders: the thread ids that have a holder
    page,                \* what the last render produced around the threads
    contextLines,        \* props.contextLines
    scrollToThreadID,    \* props.scrollToThreadID: a thread id, Null or Undefined
    scrolls              \* the thread ids scrollIntoViewIfNeeded was called for

vars == <<phase, event, isRefreshing, subs, refetches, commentThreads,
          postingToThreadID, commentTranslations, checkoutOp, replyHolders,
          pending, view, summaries, threadIDsOpen, threadRequests,
          threadHolders, page, contextLines, scrollToThreadID, scrolls>>

refreshVars == <<isRefreshing, subs, refetches>>

propVars == <<commentThreads, postingToThreadID, commentTranslations, checkoutOp,
              summaries, threadIDsOpen, contextLines, scrollToThreadID>>

replyVars == <<replyHolders, pending>>

\* Largest number of props.refetch calls explored.
MaxRefetch == 4


\* Largest number of props.addSingleComment calls awaiting their callback.
MaxPending == 2

\* Largest line number a data-line attribute is parsed back to.
MaxLine == 30

\* The most calls of scrollIntoViewIfNeeded followed.
MaxScrolls == 3

\* The most showThreadID/hideThreadID requests the owner has yet to apply.
MaxRequests == 1

\* The longest sequence of review summaries supplied.
MaxSummaries == 3

----------------------------------------------------------------------------
(* JavaScript values                                                       *)

\* null in a numeric field (comment.position, lineNumber).
Null ==
    -1

\* The result of parseInt on text that is not a number.
NaN ==
    -2

\* null and undefined in a string field (postingToThreadID, dataset entries).
NullID ==
    "null"

Undefined ==
    "undefined"

\* A RefHolder that no editor was handed to.
NoEditor ==
    "<no editor>"

\* A Map prop that is null.
NullMap ==
    [isNull |-> TRUE, map |-> <<>>]

\* The text of a number, as a data-* attribute or a text node holds it; an
\* attribute set to null is absent and reads back as undefined.
DataAttr(v) ==
    IF v = Null THEN Undefined ELSE ToString(v)

\* parseInt(text, 10)
parseInt(text) ==
    IF \E n \in 0..MaxLine : ToString(n) = text
    THEN CHOOSE n \in 0..MaxLine : ToString(n) = text
    ELSE NaN

\* checkoutStates.CURRENT
CURRENT ==
    "current"

----------------------------------------------------------------------------
(* Inputs: the props the view is constructed with                          *)

ThreadIds ==
    {"t1", "t2"}

Texts ==
    {"", "a"}

Paths ==
    {"dir/file0", "file1"}

\* The first comment of a thread: in the diff at a position, or outdated.
RootComments(t) ==
    IF t = "t1"
    THEN {[id |-> 0, path |-> "dir/file0", position |-> pos, isMinimized |-> FALSE,
           state |-> "SUBMITTED", bodyHTML |-> "i have opinions.",
           author |-> "user0"] : pos \in {10, Null}}
    ELSE {[id |-> 2, path |-> "file1", position |-> pos, isMinimized |-> FALSE,
           state |-> "SUBMITTED", bodyHTML |-> "thanks", author |-> "dolphin"] : pos \in {20, Null}}

ReplyComment(t) ==
    IF t = "t1"
    THEN [id |-> 1, path |-> "file0", position |-> 11, isMinimized |-> TRUE,
          state |-> "PENDING", bodyHTML |-> "i disagree.", author |-> "user1"]
    ELSE [id |-> 3, path |-> "file1", position |-> 21, isMinimized |-> FALSE,
          state |-> "PENDING", bodyHTML |-> "shhhh", author |-> "shark"]

CommentSeqs(t) ==
    {<<>>} \cup {<<r>> : r \in RootComments(t)}
           \cup {<<r, ReplyComment(t)>> : r \in RootComments(t)}

Pair(t, comments) ==
    [thread |-> [id |-> t, isResolved |-> FALSE], comments |-> comments]

ThreadInputs ==
    {<<>>} \cup {<<Pair("t1", c)>> : c \in CommentSeqs("t1")}
           \cup {<<Pair("t1", c1), Pair("t2", c2)>> :
                    c1 \in CommentSeqs("t1"), c2 \in CommentSeqs("t2")}

\* The ways a comment can reach renderComment: submitted or pending, shown or
\* minimized, with its author or without one (the account was deleted).
CommentVariants(id, path, position) ==
    {[id |-> id, path |-> path, position |-> position, isMinimized |-> v.min,
      state |-> v.state, bodyHTML |-> "<p>text</p>", author |-> v.author] :
        v \in {[min |-> FALSE, state |-> "SUBMITTED", author |-> "user0"],
               [min |-> FALSE, state |-> "PENDING", author |-> "user0"],
               [min |-> TRUE, state |-> "PENDING", author |-> "user0"],
               [min |-> FALSE, state |-> "SUBMITTED", author |-> NullID],
               [min |-> TRUE, state |-> "SUBMITTED", author |-> NullID]}}

\* The k-th comment of thread t.
VariedComments(t, k) ==
    IF t = "t1"
    THEN CommentVariants(k - 1, "dir/file0", 10)
    ELSE CommentVariants(k + 1, "file1", 20)

VariedCommentSeqs(t) ==
    {<<>>} \cup {<<c>> : c \in VariedComments(t, 1)}
           \cup {<<c1, c2>> : c1 \in VariedComments(t, 1), c2 \in VariedComments(t, 2)}

VariedThreadInputs ==
    {<<>>} \cup {<<Pair("t1", c)>> : c \in VariedCommentSeqs("t1")}
           \cup {<<Pair("t1", c1), Pair("t2", c2)>> :
                    c1 \in VariedCommentSeqs("t1"), c2 \in VariedCommentSeqs("t2")}

\* Threads for the progress indicator and the per-thread controls: up to
\* three pairs, each resolved or not, with or without its root comment.
ProgressThreadIds ==
    <<"t1", "t2", "t3">>

ThreadRoot(t) ==
    IF t \in ThreadIds
    THEN CHOOSE r \in RootComments(t) : r.position # Null
    ELSE [id |-> 4, path |-> "file2", position |-> Null, isMinimized |-> FALSE,
          state |-> "SUBMITTED", bodyHTML |-> "late", author |-> "user2"]

ResolvablePairs(t) ==
    [thread : [id : {t}, isResolved : BOOLEAN], comments : {<<>>, <<ThreadRoot(t)>>}]

ResolvableThreadInputs ==
    UNION {{threads \in [1..n -> UNION {ResolvablePairs(ProgressThreadIds[i]) :
                                            i \in 1..n}] :
               \A i \in 1..n : threads[i].thread.id = ProgressThreadIds[i]} :
           n \in 0..Len(ProgressThreadIds)}

\* Review summaries: the states GitHub reports, with and without a body.
ReviewStates ==
    {"PENDING", "COMMENTED", "APPROVED", "CHANGES_REQUESTED"}

Bodies ==
    {"", "<p>ok</p>"}

\* The review summary supplied at index i.
Reviews(i) ==
    [id : {i}, state : ReviewStates, bodyHTML : Bodies]

SummaryInputs ==
    UNION {{su \in [1..n -> UNION {Reviews(i) : i \in 1..n}] :
               \A i \in 1..n : su[i].id = i} : n \in 0..MaxSummaries}

PostingInputs ==
    ThreadIds \cup {NullID, Undefined}

\* EnableableOperation: enabled (the pull request can be checked out), or
\* disabled because it is the current branch or for another reason.
CheckoutOps ==
    {[enabled |-> TRUE, why |-> NullID],
     [enabled |-> FALSE, why |-> CURRENT],
     [enabled |-> FALSE, why |-> "busy"]}

DiffToFile ==
    {[p \in {10, 20} |-> p], [p \in {10, 20} |-> p + 2]}

FileTranslations ==
    {NullMap} \cup
    {[isNull |-> FALSE, map |-> [l \in {10, 12, 20, 22} |-> [newPosition |-> l + d]]] :
        d \in {0, 5}}

Tables ==
    [diffToFilePosition : DiffToFile, fileTranslations : FileTranslations]

TranslationInputs ==
    {NullMap} \cup
    {[isNull |-> FALSE, map |-> m] : m \in UNION {[S -> Tables] : S \in SUBSET Paths}}

\* The tables are computed for the root comments in use: a root comment that
\* is not outdated has a table for its path, holding its position.
TablesCover(threads, translations) ==
    translations.isNull \/
    \A i \in DOMAIN threads :
        LET comments == threads[i].comments IN
        (comments # <<>> /\ comments[1].position # Null) =>
            /\ comments[1].path \in DOMAIN translations.map
            /\ comments[1].position \in
                  DOMAIN translations.map[comments[1].path].diffToFilePosition

----------------------------------------------------------------------------
(* Rendering                                                               *)

\* helpers.toNativePathSep on a platform whose separator is "/".
toNativePathSep(rawPath) ==
    rawPath

\* getTranslatedPosition, no translation tables at all.  lookups counts the
\* Map.get calls made on the tables.
translatedNoData ==
    [lineNumber |-> Null, positionText |-> "", lookups |-> 0]

\* The outdated case without its text.
translatedOutdated_NoText ==
    [lineNumber |-> Null, positionText |-> "", lookups |-> 0]

\* getTranslatedPosition, a root comment outside the diff.
translatedOutdated ==
    [lineNumber |-> Null, positionText |-> "outdated", lookups |-> 0]

\* The lookup applying the local-edit table whatever is checked out.
translatedMapped_AlwaysSecond(rootComment, translations, isCheckedOutPullRequest) ==
    LET translationsForFile == translations.map[rootComment.path]
        adjusted == translationsForFile.diffToFilePosition[
                        parseInt(ToString(rootComment.position))]
        second == ~translationsForFile.fileTranslations.isNull
        lineNumber == IF second
                      THEN translationsForFile.fileTranslations.map[adjusted].newPosition
                      ELSE adjusted
    IN [lineNumber |-> lineNumber, positionText |-> ToString(lineNumber),
        lookups |-> IF second THEN 3 ELSE 2]

\* getTranslatedPosition, the lookup through the file's tables.
translatedMapped(rootComment, translations, isCheckedOutPullRequest) ==
    LET translationsForFile == translations.map[rootComment.path]
        adjusted == translationsForFile.diffToFilePosition[
                        parseInt(ToString(rootComment.position))]
        second == ~translationsForFile.fileTranslations.isNull
                  /\ isCheckedOutPullRequest
        lineNumber == IF second
                      THEN translationsForFile.fileTranslations.map[adjusted].newPosition
                      ELSE adjusted
    IN [lineNumber |-> lineNumber, positionText |-> ToString(lineNumber),
        lookups |-> IF second THEN 3 ELSE 2]

\* getTranslatedPosition testing the position before the tables.
getTranslatedPosition_OutdatedFirst(rootComment, translations, op) ==
    LET isCheckedOutPullRequest == (op.why = CURRENT) IN
    IF rootComment.position = Null
    THEN translatedOutdated
    ELSE IF translations.isNull
    THEN translatedNoData
    ELSE translatedMapped(rootComment, translations, isCheckedOutPullRequest)

getTranslatedPosition(rootComment, translations, op) ==
    LET isCheckedOutPullRequest == (op.why = CURRENT) IN
    IF translations.isNull
    THEN translatedNoData
    ELSE IF rootComment.position = Null
    THEN translatedOutdated
    ELSE translatedMapped(rootComment, translations, isCheckedOutPullRequest)

\* renderThread replying to the root comment instead of the last one.
renderThread_ReplyToRoot(commentThread, posting) ==
    LET comments == commentThread.comments
        isPosting == (posting # NullID)
    IN [lastComment |-> comments[1],
        readOnly |-> isPosting,
        commentDisabled |-> isPosting]

\* The part of renderThread that the reply controls show.
renderThread(commentThread, posting) ==
    LET comments == commentThread.comments
        isPosting == (posting # NullID)
    IN [lastComment |-> comments[Len(comments)],
        readOnly |-> isPosting,
        commentDisabled |-> isPosting]

\* A part of the output that a render leaves out.
Absent == "<absent>"

\* renderResolveButton: the callback the resolve control of a thread invokes.
renderResolveButton_Swapped(thread) ==
    IF thread.isResolved THEN "resolveThread" ELSE "unresolveThread"

renderResolveButton(thread) ==
    IF thread.isResolved THEN "unresolveThread" ELSE "resolveThread"

\* renderComment: a minimized comment is a placeholder; any other comment shows
\* its author, its body and, when its state is PENDING, the pending class and
\* badge.
renderComment(comment) ==
    IF comment.isMinimized
    THEN [id |-> comment.id,
          placeholder |-> TRUE,
          author |-> Absent,
          body |-> Absent,
          pendingClass |-> FALSE,
          pendingBadge |-> FALSE]
    ELSE [id |-> comment.id,
          placeholder |-> FALSE,
          author |-> comment.author,
          body |-> comment.bodyHTML,
          pendingClass |-> (comment.state = "PENDING"),
          pendingBadge |-> (comment.state = "PENDING")]

\* renderComment reads comment.author.login of every comment that is not
\* minimized: a comment without an author makes it throw a TypeError.
renderCommentThrows(comment) ==
    ~comment.isMinimized /\ comment.author = NullID

\* The two navigation buttons of a thread.
renderNav_DisabledWhenCheckedOut(nativePath, lineNumber, position, op) ==
    [jumpDisabled |-> ~op.enabled,
     jumpPath |-> nativePath,
     jumpLine |-> DataAttr(lineNumber),
     diffPath |-> nativePath,
     diffLine |-> DataAttr(position)]

renderNav(nativePath, lineNumber, position, op) ==
    [jumpDisabled |-> op.enabled,
     jumpPath |-> nativePath,
     jumpLine |-> DataAttr(lineNumber),
     diffPath |-> nativePath,
     diffLine |-> DataAttr(position)]

\* The patch preview of a thread: none for a root comment without position.
renderPatchPreview_Always(nativePath, position, lines) ==
    [shown |-> TRUE, fileName |-> nativePath, diffRow |-> position,
     maxRowCount |-> lines]

renderPatchPreview(nativePath, position, lines) ==
    IF position # Null
    THEN [shown |-> TRUE, fileName |-> nativePath, diffRow |-> position,
          maxRowCount |-> lines]
    ELSE [shown |-> FALSE, fileName |-> Absent, diffRow |-> Null, maxRowCount |-> Null]

\* One <details> per thread: reference line, navigation buttons, reply controls.
renderReviewCommentThread(commentThread, posting, translations, op, open, lines) ==
    LET rootComment == commentThread.comments[1]
        nativePath == toNativePathSep(rootComment.path)
        translated == getTranslatedPosition(rootComment, translations, op)
        nav == renderNav(nativePath, translated.lineNumber, rootComment.position, op)
        reply == renderThread(commentThread, posting)
    IN [id |-> commentThread.thread.id,
        lineNumber |-> translated.lineNumber,
        positionText |-> translated.positionText,
        lookups |-> translated.lookups,
        outdated |-> (translated.lineNumber = Null \/ translated.lineNumber = 0),
        jumpDisabled |-> nav.jumpDisabled,
        jumpPath |-> nav.jumpPath,
        jumpLine |-> nav.jumpLine,
        diffPath |-> nav.diffPath,
        diffLine |-> nav.diffLine,
        lastComment |-> reply.lastComment,
        readOnly |-> reply.readOnly,
        commentDisabled |-> reply.commentDisabled,
        isOpen |-> (commentThread.thread.id \in open),
        resolved |-> commentThread.thread.isResolved,
        resolveButton |-> renderResolveButton(commentThread.thread),
        rootComment |-> rootComment.id,
        preview |-> renderPatchPreview(nativePath, rootComment.position, lines),
        comments |-> [i \in DOMAIN commentThread.comments |->
                         renderComment(commentThread.comments[i])]]

\* renderReviewCommentThread reads rootComment.author.login, and renderThread
\* maps renderComment over the comments: either can throw.
renderReviewCommentThreadThrows(commentThread) ==
    /\ commentThread.comments # <<>>
    /\ \/ commentThread.comments[1].author = NullID
       \/ \E i \in DOMAIN commentThread.comments :
              renderCommentThrows(commentThread.comments[i])

RECURSIVE renderThreads(_, _, _, _, _, _)
\* commentThreads.map(this.renderReviewCommentThread): a pair without
\* comments renders nothing.
renderThreads(threads, posting, translations, op, open, lines) ==
    IF threads = <<>>
    THEN <<>>
    ELSE LET rest == renderThreads(Tail(threads), posting, translations, op, open,
                                   lines) IN
         IF Head(threads).comments = <<>>
         THEN rest
         ELSE <<renderReviewCommentThread(Head(threads), posting, translations, op,
                                          open, lines)>>
              \o rest

\* The reply holders after a render: one is created for each rendered thread
\* that has none, the others are kept.
holdersAfterRender_Fresh(holders, threads) ==
    LET rendered == {threads[i].thread.id : i \in {j \in DOMAIN threads :
                                                     threads[j].comments # <<>>}}
    IN [t \in DOMAIN holders \cup rendered |->
           IF t \in rendered THEN NoEditor ELSE holders[t]]

holdersAfterRender(holders, threads) ==
    LET rendered == {threads[i].thread.id : i \in {j \in DOMAIN threads :
                                                     threads[j].comments # <<>>}}
    IN [t \in DOMAIN holders \cup rendered |->
           IF t \in DOMAIN holders THEN holders[t] ELSE NoEditor]

\* The copy shown for a review state (reviewTypes in renderReviewSummary).
reviewTypes(type) ==
    CASE type = "APPROVED" -> "approved these changes"
      [] type = "COMMENTED" -> "commented"
      [] type = "CHANGES_REQUESTED" -> "requested changes"
      [] OTHER -> ""

\* renderReviewSummary returns null for these reviews.
renderReviewSummaryNull_PendingOnly(review) ==
    review.state = "PENDING"

renderReviewSummaryNull(review) ==
    \/ review.state = "PENDING"
    \/ (review.state = "COMMENTED" /\ review.bodyHTML = "")

\* The element renderReviewSummary returns for the other reviews.
renderReviewSummary(review) ==
    [id |-> review.id, copy |-> reviewTypes(review.state), body |-> review.bodyHTML]

RECURSIVE summaryList(_)
\* this.props.summaries.map(this.renderReviewSummary), nulls rendering nothing.
summaryList(reviews) ==
    IF reviews = <<>>
    THEN <<>>
    ELSE (IF renderReviewSummaryNull(Head(reviews))
          THEN <<>>
          ELSE <<renderReviewSummary(Head(reviews))>>)
         \o summaryList(Tail(reviews))

\* renderReviewSummaries: the empty state, or the Summaries section.
renderReviewSummaries_EmptyWhenNothingListed(reviews) ==
    IF summaryList(reviews) = <<>>
    THEN [emptyState |-> 1, summariesSection |-> FALSE, summaryList |-> <<>>]
    ELSE [emptyState |-> 0, summariesSection |-> TRUE,
          summaryList |-> summaryList(reviews)]

renderReviewSummaries(reviews) ==
    IF Len(reviews) = 0
    THEN [emptyState |-> 1, summariesSection |-> FALSE, summaryList |-> <<>>]
    ELSE [emptyState |-> 0, summariesSection |-> TRUE,
          summaryList |-> summaryList(reviews)]

\* renderReviewCommentThreads: nothing, or the Comments section with its
\* progress indicator.
renderReviewCommentThreads_CountRendered(threads) ==
    IF Len(threads) = 0
    THEN [commentsSection |-> FALSE, resolved |-> Null, total |-> Null]
    ELSE [commentsSection |-> TRUE,
          resolved |-> Cardinality({i \in DOMAIN threads :
                                      /\ threads[i].thread.isResolved
                                      /\ threads[i].comments # <<>>}),
          total |-> Len(threads)]

renderReviewCommentThreads(threads) ==
    IF Len(threads) = 0
    THEN [commentsSection |-> FALSE, resolved |-> Null, total |-> Null]
    ELSE [commentsSection |-> TRUE,
          resolved |-> Cardinality({i \in DOMAIN threads :
                                      threads[i].thread.isResolved}),
          total |-> Len(threads)]

\* The page before the first render, and after a render that threw.
NoPage ==
    [emptyState |-> 0, summariesSection |-> FALSE, summaryList |-> <<>>,
     commentsSection |-> FALSE, resolved |-> Null, total |-> Null]

\* What render() shows around the threads.
renderPage_EmptyStatePerSection(reviews, threads) ==
    LET top == renderReviewSummaries(reviews)
        bottom == renderReviewCommentThreads(threads)
    IN [emptyState |-> top.emptyState + (IF bottom.commentsSection THEN 0 ELSE 1),
        summariesSection |-> top.summariesSection,
        summaryList |-> top.summaryList,
        commentsSection |-> bottom.commentsSection,
        resolved |-> bottom.resolved,
        total |-> bottom.total]

renderPage(reviews, threads) ==
    LET top == renderReviewSummaries(reviews)
        bottom == renderReviewCommentThreads(threads)
    IN [emptyState |-> top.emptyState,
        summariesSection |-> top.summariesSection,
        summaryList |-> top.summaryList,
        commentsSection |-> bottom.commentsSection,
        resolved |-> bottom.resolved,
        total |-> bottom.total]

\* The index of the first pair whose rendering throws, 0 if none does.
firstThrow(threads) ==
    IF \E i \in DOMAIN threads : renderReviewCommentThreadThrows(threads[i])
    THEN CHOOSE i \in DOMAIN threads :
             /\ renderReviewCommentThreadThrows(threads[i])
             /\ \A j \in 1..(i - 1) : ~renderReviewCommentThreadThrows(threads[j])
    ELSE 0

\* The ids of the pairs that have comments.
idsWithComments(threads) ==
    {threads[i].thread.id : i \in {j \in DOMAIN threads : threads[j].comments # <<>>}}

\* A render pass with the given props. The holders are filled in as the pairs
\* are visited: when a pair throws, the pairs before it have both holders, the
\* throwing pair has its thread holder, and its reply holder too unless the
\* root comment's author was the one missing.
render(reviews, threads, posting, translations, op, open, lines) ==
    LET k == firstThrow(threads) IN
    IF k = 0
    THEN /\ view' = renderThreads(threads, posting, translations, op, open, lines)
         /\ page' = renderPage(reviews, threads)
         /\ replyHolders' = holdersAfterRender(replyHolders, threads)
         /\ threadHolders' = threadHolders \cup idsWithComments(threads)
    ELSE /\ view' = <<>>
         /\ page' = NoPage
         /\ replyHolders' =
                holdersAfterRender(replyHolders,
                                   IF threads[k].comments[1].author = NullID
                                   THEN SubSeq(threads, 1, k - 1)
                                   ELSE SubSeq(threads, 1, k))
         /\ threadHolders' = threadHolders \cup idsWithComments(SubSeq(threads, 1, k))

RenderedIds ==
    {view[i].id : i \in DOMAIN view}

ViewOf(t) ==
    view[CHOOSE i \in DOMAIN view : view[i].id = t]

PairOf(t) ==
    commentThreads[CHOOSE i \in DOMAIN commentThreads : commentThreads[i].thread.id = t]

\* JavaScript truthiness of a scrollToThreadID.
truthy(id) ==
    id \notin {NullID, Undefined, ""}

\* threadHolders.get(id), then threadHolder.map(element => scrollIntoViewIfNeeded):
\* the holder gives an element while its thread is rendered.
scrollIntoViewIfNeeded(id) ==
    IF id \in threadHolders' /\ id \in RenderedIds'
    THEN scrolls' = Append(scrolls, id)
    ELSE scrolls' = scrolls

\* componentDidUpdate(prevProps), run after a render with the props holding
\* nextScroll where prevProps held prevScroll.
componentDidUpdate_EveryRender(prevScroll, nextScroll) ==
    IF truthy(nextScroll)
    THEN scrollIntoViewIfNeeded(nextScroll)
    ELSE scrolls' = scrolls

componentDidUpdate(prevScroll, nextScroll) ==
    IF truthy(nextScroll) /\ nextScroll # prevScroll
    THEN scrollIntoViewIfNeeded(nextScroll)
    ELSE scrolls' = scrolls

----------------------------------------------------------------------------
(* Construction and mounting                                               *)

constructor ==
    /\ phase = "constructed"
    /\ event = [op |-> "constructor", arg |-> "none"]
    /\ isRefreshing = FALSE
    /\ subs = {}
    /\ refetches = <<>>
    /\ replyHolders = <<>>
    /\ pending = <<>>
    /\ view = <<>>
    /\ threadRequests = <<>>
    /\ threadHolders = {}
    /\ page = NoPage
    /\ scrolls = <<>>

\* The first render followed by componentDidMount.
componentDidMount ==
    /\ phase = "constructed"
    /\ phase' = IF firstThrow(commentThreads) = 0 THEN "mounted" ELSE "failed"
    /\ render(summaries, commentThreads, postingToThreadID, commentTranslations,
              checkoutOp, threadIDsOpen,
              contextLines)
    /\ IF truthy(scrollToThreadID)
       THEN scrollIntoViewIfNeeded(scrollToThreadID)
       ELSE scrolls' = scrolls
    /\ event' = [op |-> "mount", arg |-> "none"]
    /\ UNCHANGED <<refreshVars, propVars, pending, threadRequests>>

----------------------------------------------------------------------------
(* Refresh button: renderHeader/refresh, componentWillUnmount              *)

\* Refetches whose completion callback has not run and that were not cancelled.
Outstanding ==
    {i \in DOMAIN refetches : ~refetches[i].done /\ ~refetches[i].disposed}

\* The refresh button's click handler past its guard.  timing: whether props.refetch
\* invokes the completion callback after it returned ("async") or before it
\* returns ("sync").  In the "sync" case the callback reads `sub` before its
\* initialisation: with `const` compiled to `var` it reads undefined and
\* subs.remove(undefined) does nothing; with a native `const` the read throws a
\* ReferenceError, which props.refetch either swallows (caught) or lets
\* propagate out of the handler.  Both setState calls of one handler are
\* batched, so the state after the handler is the last value set.
startRefetch(timing, build, caught) ==
    /\ Len(refetches) < MaxRefetch
    /\ event' = [op |-> "refresh", arg |-> timing]
    /\ LET sub == Len(refetches) + 1 IN
       CASE timing = "async" ->
              /\ isRefreshing' = TRUE
              /\ refetches' = Append(refetches, [done |-> FALSE, disposed |-> FALSE])
              /\ subs' = subs \cup {sub}
         [] timing = "sync" /\ build = "var" ->
              /\ isRefreshing' = FALSE
              /\ refetches' = Append(refetches, [done |-> TRUE, disposed |-> FALSE])
              /\ subs' = subs \cup {sub}
         [] timing = "sync" /\ build = "const" ->
              /\ isRefreshing' = TRUE
              /\ refetches' = Append(refetches, [done |-> TRUE, disposed |-> FALSE])
              /\ subs' = IF caught THEN subs \cup {sub} ELSE subs

\* refresh without its busy-flag test.
refresh_NoGuard(timing, build, caught) ==
    /\ phase = "mounted"
    /\ startRefetch(timing, build, caught)
    /\ UNCHANGED <<phase, propVars, replyVars, view, page, threadHolders, threadRequests, scrolls>>

\* The click handler: nothing happens while a refresh is outstanding.
refresh(timing, build, caught) ==
    /\ phase = "mounted"
    /\ IF isRefreshing
       THEN /\ event' = [op |-> "refresh", arg |-> "ignored"]
            /\ UNCHANGED refreshVars
       ELSE startRefetch(timing, build, caught)
    /\ UNCHANGED <<phase, propVars, replyVars, view, page, threadHolders, threadRequests, scrolls>>

\* The completion callback handed to props.refetch, run after refetch returned.
refetchCallback(sub) ==
    /\ phase = "mounted"
    /\ sub \in Outstanding
    /\ subs' = subs \ {sub}
    /\ isRefreshing' = FALSE
    /\ refetches' = [refetches EXCEPT ![sub].done = TRUE]
    /\ event' = [op |-> "refetchCallback", arg |-> "none"]
    /\ UNCHANGED <<phase, propVars, replyVars, view, page, threadHolders, threadRequests, scrolls>>

\* componentWillUnmount that leaves the subscriptions alone.
componentWillUnmount_NoDispose ==
    /\ phase = "mounted"
    /\ phase' = "unmounted"
    /\ event' = [op |-> "unmount", arg |-> "none"]
    /\ UNCHANGED <<refreshVars, propVars, replyVars, view, page, threadHolders, threadRequests, scrolls>>

\* this.subs.dispose(): every held subscription is disposed and dropped.
componentWillUnmount ==
    /\ phase = "mounted"
    /\ phase' = "unmounted"
    /\ refetches' = [i \in DOMAIN refetches |->
                        IF i \in subs THEN [refetches[i] EXCEPT !.disposed = TRUE]
                                      ELSE refetches[i]]
    /\ subs' = {}
    /\ event' = [op |-> "unmount", arg |-> "none"]
    /\ UNCHANGED <<isRefreshing, propVars, replyVars, view, page, threadHolders, threadRequests, scrolls>>

\* The test suite's default props: no threads, no translations, checked out.
InitRefresh ==
    /\ constructor
    /\ contextLines = 4
    /\ scrollToThreadID = Undefined
    /\ summaries = <<>>
    /\ threadIDsOpen = {}
    /\ commentThreads = <<>>
    /\ postingToThreadID = Undefined
    /\ commentTranslations = NullMap
    /\ checkoutOp = [enabled |-> FALSE, why |-> CURRENT]

NextRefresh ==
    \/ componentDidMount
    \/ \E timing \in {"async", "sync"}, build \in {"var", "const"}, caught \in BOOLEAN :
          refresh(timing, build, caught)
    \/ \E sub \in DOMAIN refetches : refetchCallback(sub)
    \/ componentWillUnmount

SpecRefresh ==
    InitRefresh /\ [][NextRefresh]_vars

----------------------------------------------------------------------------
(* Reply drafts and their submission                                       *)

RemoveAt(seq, k) ==
    SubSeq(seq, 1, k - 1) \o SubSeq(seq, k + 1, Len(seq))

\* AtomTextEditor hands its editor to refModel, the thread's reply holder.
attachEditor(t) ==
    /\ phase = "mounted"
    /\ t \in RenderedIds
    /\ replyHolders[t] = NoEditor
    /\ replyHolders' = [replyHolders EXCEPT ![t] = ""]
    /\ event' = [op |-> "attachEditor", arg |-> t]
    /\ UNCHANGED <<phase, refreshVars, propVars, pending, view, page, threadHolders, threadRequests, scrolls>>

\* The user edits the reply; a read-only editor takes no input.
typeText(t, text) ==
    /\ phase = "mounted"
    /\ t \in RenderedIds
    /\ replyHolders[t] # NoEditor
    /\ ~ViewOf(t).readOnly
    /\ replyHolders' = [replyHolders EXCEPT ![t] = text]
    /\ event' = [op |-> "typeText", arg |-> t]
    /\ UNCHANGED <<phase, refreshVars, propVars, pending, view, page, threadHolders, threadRequests, scrolls>>

\* submitReply(replyHolder, thread, lastComment): replyHolder is the holder
\* of thread.id; the call made is kept with its two callbacks until one runs.
submitReply(thread, lastComment) ==
    LET replyHolder == replyHolders[thread.id]
        body == IF replyHolder = NoEditor THEN "" ELSE replyHolder
    IN pending' = Append(pending, [body |-> body,
                                   threadID |-> thread.id,
                                   replyTo |-> lastComment.id,
                                   path |-> lastComment.path,
                                   position |-> lastComment.position])

\* A click on the thread's Comment button; a disabled button takes no click.
clickComment(t) ==
    /\ phase = "mounted"
    /\ t \in RenderedIds
    /\ ~ViewOf(t).commentDisabled
    /\ Len(pending) < MaxPending
    /\ submitReply(PairOf(t).thread, ViewOf(t).lastComment)
    /\ event' = [op |-> "clickComment", arg |-> t]
    /\ UNCHANGED <<phase, refreshVars, propVars, replyHolders, view, page, threadHolders, threadRequests, scrolls>>

\* github:submit-comment on a .github-Review-reply element; threadID is the
\* element's data-thread-id.
submitCurrentComment_FirstThread(threadID) ==
    /\ phase = "mounted"
    /\ threadID \in RenderedIds \cup {Undefined}
    /\ event' = [op |-> "submitCommand", arg |-> threadID,
                 returned |-> IF threadID = Undefined THEN NullID ELSE "addSingleComment"]
    /\ IF threadID = Undefined
       THEN UNCHANGED pending
       ELSE /\ Len(pending) < MaxPending
            /\ LET found == PairOf(view[1].id) IN
               submitReply(found.thread, found.comments[Len(found.comments)])
    /\ UNCHANGED <<phase, refreshVars, propVars, replyHolders, view, page, threadHolders, threadRequests, scrolls>>

submitCurrentComment(threadID) ==
    /\ phase = "mounted"
    /\ threadID \in RenderedIds \cup {Undefined}
    /\ event' = [op |-> "submitCommand", arg |-> threadID,
                 returned |-> IF threadID = Undefined THEN NullID ELSE "addSingleComment"]
    /\ IF threadID = Undefined
       THEN UNCHANGED pending
       ELSE /\ Len(pending) < MaxPending
            /\ LET found == PairOf(threadID) IN
               submitReply(found.thread, found.comments[Len(found.comments)])
    /\ UNCHANGED <<phase, refreshVars, propVars, replyHolders, view, page, threadHolders, threadRequests, scrolls>>

\* The success callback of the k-th call awaiting one; setText is called
\* with bypassReadOnly.
didSubmitComment_UnlessReadOnly(k) ==
    /\ k \in DOMAIN pending
    /\ LET t == pending[k].threadID IN
       /\ replyHolders' = IF replyHolders[t] = NoEditor \/ postingToThreadID # NullID
                          THEN replyHolders
                          ELSE [replyHolders EXCEPT ![t] = ""]
       /\ event' = [op |-> "didSubmitComment",
                    arg |-> [call |-> pending[k], before |-> replyHolders[t]]]
    /\ pending' = RemoveAt(pending, k)
    /\ UNCHANGED <<phase, refreshVars, propVars, view, page, threadHolders, threadRequests, scrolls>>

didSubmitComment(k) ==
    /\ k \in DOMAIN pending
    /\ LET t == pending[k].threadID IN
       /\ replyHolders' = IF replyHolders[t] = NoEditor
                          THEN replyHolders
                          ELSE [replyHolders EXCEPT ![t] = ""]
       /\ event' = [op |-> "didSubmitComment",
                    arg |-> [call |-> pending[k], before |-> replyHolders[t]]]
    /\ pending' = RemoveAt(pending, k)
    /\ UNCHANGED <<phase, refreshVars, propVars, view, page, threadHolders, threadRequests, scrolls>>

\* A failure callback that clears the draft as the success callback does.
didFailComment_Clear(k) ==
    /\ k \in DOMAIN pending
    /\ LET t == pending[k].threadID IN
       /\ replyHolders' = IF replyHolders[t] = NoEditor
                          THEN replyHolders
                          ELSE [replyHolders EXCEPT ![t] = ""]
       /\ event' = [op |-> "didFailComment",
                    arg |-> [call |-> pending[k], before |-> replyHolders[t]]]
    /\ pending' = RemoveAt(pending, k)
    /\ UNCHANGED <<phase, refreshVars, propVars, view, page, threadHolders, threadRequests, scrolls>>

\* The failure callback of the k-th call awaiting one.
didFailComment(k) ==
    /\ k \in DOMAIN pending
    /\ LET t == pending[k].threadID IN
       /\ replyHolders' = IF replyHolders[t] = NoEditor
                          THEN replyHolders
                          ELSE [replyHolders EXCEPT ![t] = pending[k].body]
       /\ event' = [op |-> "didFailComment",
                    arg |-> [call |-> pending[k], before |-> replyHolders[t]]]
    /\ pending' = RemoveAt(pending, k)
    /\ UNCHANGED <<phase, refreshVars, propVars, view, page, threadHolders, threadRequests, scrolls>>

\* The owner renders the view with another postingToThreadID.
receivePosting(posting) ==
    /\ phase = "mounted"
    /\ posting # postingToThreadID
    /\ postingToThreadID' = posting
    /\ render(summaries, commentThreads, posting, commentTranslations, checkoutOp,
              threadIDsOpen,
              contextLines)
    /\ componentDidUpdate(scrollToThreadID, scrollToThreadID)
    /\ event' = [op |-> "receiveProps", arg |-> "postingToThreadID"]
    /\ UNCHANGED <<phase, refreshVars, commentThreads, commentTranslations,
                   checkoutOp, summaries, threadIDsOpen, pending, threadRequests,
                   contextLines, scrollToThreadID>>

InitReply ==
    /\ constructor
    /\ contextLines = 4
    /\ scrollToThreadID = Undefined
    /\ summaries = <<>>
    /\ threadIDsOpen = {}
    /\ commentThreads \in ThreadInputs
    /\ postingToThreadID \in PostingInputs
    /\ commentTranslations = NullMap
    /\ checkoutOp = [enabled |-> FALSE, why |-> CURRENT]

NextReply ==
    \/ componentDidMount
    \/ \E t \in ThreadIds : attachEditor(t)
    \/ \E t \in ThreadIds, text \in Texts : typeText(t, text)
    \/ \E t \in ThreadIds : clickComment(t)
    \/ \E threadID \in ThreadIds \cup {Undefined} : submitCurrentComment(threadID)
    \/ \E k \in DOMAIN pending : didSubmitComment(k)
    \/ \E k \in DOMAIN pending : didFailComment(k)
    \/ \E posting \in PostingInputs : receivePosting(posting)

SpecReply ==
    InitReply /\ [][NextReply]_vars

----------------------------------------------------------------------------
(* Navigation buttons                                                      *)

\* A click on Jump To File; a disabled button takes no click.  The handler
\* reads the button's data-path and data-line.
openFile(t) ==
    /\ phase = "mounted"
    /\ t \in RenderedIds
    /\ ~ViewOf(t).jumpDisabled
    /\ event' = IF ~checkoutOp.enabled
                THEN [op |-> "openFile",
                      arg |-> [thread |-> t, path |-> ViewOf(t).jumpPath,
                               line |-> ViewOf(t).jumpLine]]
                ELSE [op |-> "jumpToFile", arg |-> "ignored"]
    /\ UNCHANGED <<phase, refreshVars, propVars, replyVars, view, page, threadHolders, threadRequests, scrolls>>

\* A click on Open Diff.
openDiff(t) ==
    /\ phase = "mounted"
    /\ t \in RenderedIds
    /\ event' = [op |-> "openDiff",
                 arg |-> [thread |-> t, path |-> ViewOf(t).diffPath,
                          line |-> parseInt(ViewOf(t).diffLine)]]
    /\ UNCHANGED <<phase, refreshVars, propVars, replyVars, view, page, threadHolders, threadRequests, scrolls>>

\* The owner renders the view with another checkoutOp.
receiveCheckoutOp(op) ==
    /\ phase = "mounted"
    /\ op # checkoutOp
    /\ checkoutOp' = op
    /\ render(summaries, commentThreads, postingToThreadID, commentTranslations, op,
              threadIDsOpen,
              contextLines)
    /\ componentDidUpdate(scrollToThreadID, scrollToThreadID)
    /\ event' = [op |-> "receiveProps", arg |-> "checkoutOp"]
    /\ UNCHANGED <<phase, refreshVars, commentThreads, postingToThreadID,
                   commentTranslations, summaries, threadIDsOpen, pending,
                   threadRequests,
                   contextLines, scrollToThreadID>>

InitNav ==
    /\ constructor
    /\ contextLines = 4
    /\ scrollToThreadID = Undefined
    /\ summaries = <<>>
    /\ threadIDsOpen = {}
    /\ commentThreads \in ThreadInputs
    /\ postingToThreadID = NullID
    /\ commentTranslations \in TranslationInputs
    /\ TablesCover(commentThreads, commentTranslations)
    /\ checkoutOp \in CheckoutOps

NextNav ==
    \/ componentDidMount
    \/ \E t \in ThreadIds : openFile(t)
    \/ \E t \in ThreadIds : openDiff(t)
    \/ \E op \in CheckoutOps : receiveCheckoutOp(op)

SpecNav ==
    InitNav /\ [][NextNav]_vars

----------------------------------------------------------------------------
(* Review summaries and the sections of the page                           *)

\* The owner renders the view with one more review summary.
receiveSummary(review) ==
    /\ phase = "mounted"
    /\ Len(summaries) < MaxSummaries
    /\ review.id = Len(summaries) + 1
    /\ summaries' = Append(summaries, review)
    /\ render(summaries', commentThreads, postingToThreadID, commentTranslations,
              checkoutOp, threadIDsOpen,
              contextLines)
    /\ componentDidUpdate(scrollToThreadID, scrollToThreadID)
    /\ event' = [op |-> "receiveProps", arg |-> "summaries"]
    /\ UNCHANGED <<phase, refreshVars, commentThreads, postingToThreadID,
                   commentTranslations, checkoutOp, threadIDsOpen, pending,
                   threadRequests,
                   contextLines, scrollToThreadID>>

\* The owner renders the view with another list of comment threads.
receiveThreads(threads) ==
    /\ phase = "mounted"
    /\ threads # commentThreads
    /\ firstThrow(threads) = 0
    /\ commentThreads' = threads
    /\ render(summaries, threads, postingToThreadID, commentTranslations, checkoutOp,
              threadIDsOpen,
              contextLines)
    /\ componentDidUpdate(scrollToThreadID, scrollToThreadID)
    /\ event' = [op |-> "receiveProps", arg |-> "commentThreads"]
    /\ UNCHANGED <<phase, refreshVars, summaries, postingToThreadID,
                   commentTranslations, checkoutOp, threadIDsOpen, pending,
                   threadRequests,
                   contextLines, scrollToThreadID>>

SectionThreadInputs ==
    {<<>>} \cup {<<Pair("t1", c)>> : c \in CommentSeqs("t1")}

InitSummaries ==
    /\ constructor
    /\ contextLines = 4
    /\ scrollToThreadID = Undefined
    /\ summaries \in SummaryInputs
    /\ threadIDsOpen = {}
    /\ commentThreads \in SectionThreadInputs
    /\ postingToThreadID = NullID
    /\ commentTranslations = NullMap
    /\ checkoutOp = [enabled |-> FALSE, why |-> CURRENT]

NextSummaries ==
    \/ componentDidMount
    \/ \E i \in 1..MaxSummaries : \E review \in Reviews(i) : receiveSummary(review)
    \/ \E threads \in SectionThreadInputs : receiveThreads(threads)

SpecSummaries ==
    InitSummaries /\ [][NextSummaries]_vars

----------------------------------------------------------------------------
(* The comments of the threads                                             *)

\* The owner renders the view after a comment was added to thread t.
receiveComment(t, comment) ==
    /\ phase = "mounted"
    /\ \E i \in DOMAIN commentThreads :
          /\ commentThreads[i].thread.id = t
          /\ Len(commentThreads[i].comments) < 2
          /\ comment \in VariedComments(t, Len(commentThreads[i].comments) + 1)
          /\ commentThreads' =
                 [commentThreads EXCEPT ![i].comments = Append(@, comment)]
    /\ firstThrow(commentThreads') = 0
    /\ render(summaries, commentThreads', postingToThreadID, commentTranslations,
              checkoutOp, threadIDsOpen,
              contextLines)
    /\ componentDidUpdate(scrollToThreadID, scrollToThreadID)
    /\ event' = [op |-> "receiveProps", arg |-> "commentThreads"]
    /\ UNCHANGED <<phase, refreshVars, summaries, postingToThreadID,
                   commentTranslations, checkoutOp, threadIDsOpen, pending,
                   threadRequests,
                   contextLines, scrollToThreadID>>

InitComments ==
    /\ constructor
    /\ contextLines = 4
    /\ scrollToThreadID = Undefined
    /\ summaries = <<>>
    /\ threadIDsOpen = {}
    /\ commentThreads \in VariedThreadInputs
    /\ postingToThreadID = NullID
    /\ commentTranslations = NullMap
    /\ checkoutOp = [enabled |-> FALSE, why |-> CURRENT]

NextComments ==
    \/ componentDidMount
    \/ \E t \in ThreadIds : \E k \in 1..2 : \E comment \in VariedComments(t, k) :
           receiveComment(t, comment)

SpecComments ==
    InitComments /\ [][NextComments]_vars

----------------------------------------------------------------------------
(* Per-thread controls: expanding, collapsing, resolving                   *)

\* A click on the reference line of thread t.
toggleThread_AlwaysShow(t) ==
    /\ phase = "mounted"
    /\ t \in RenderedIds
    /\ Len(threadRequests) < MaxRequests
    /\ threadRequests' = Append(threadRequests, [call |-> "showThreadID", id |-> t])
    /\ event' = [op |-> "toggle", arg |-> t]
    /\ UNCHANGED <<phase, refreshVars, propVars, replyVars, view, page, threadHolders, scrolls>>

toggleThread(t) ==
    /\ phase = "mounted"
    /\ t \in RenderedIds
    /\ Len(threadRequests) < MaxRequests
    /\ threadRequests' =
           Append(threadRequests,
                  [call |-> IF ViewOf(t).isOpen THEN "hideThreadID" ELSE "showThreadID",
                   id |-> t])
    /\ event' = [op |-> "toggle", arg |-> t]
    /\ UNCHANGED <<phase, refreshVars, propVars, replyVars, view, page, threadHolders, scrolls>>

\* The owner applies the oldest request to the open set and renders the view
\* with the result.
applyThreadRequest ==
    /\ phase = "mounted"
    /\ threadRequests # <<>>
    /\ threadIDsOpen' = IF Head(threadRequests).call = "showThreadID"
                        THEN threadIDsOpen \cup {Head(threadRequests).id}
                        ELSE threadIDsOpen \ {Head(threadRequests).id}
    /\ threadRequests' = Tail(threadRequests)
    /\ render(summaries, commentThreads, postingToThreadID, commentTranslations,
              checkoutOp, threadIDsOpen',
              contextLines)
    /\ componentDidUpdate(scrollToThreadID, scrollToThreadID)
    /\ event' = [op |-> "applyThreadRequest", arg |-> Head(threadRequests)]
    /\ UNCHANGED <<phase, refreshVars, commentThreads, postingToThreadID,
                   commentTranslations, checkoutOp, summaries, pending,
                   contextLines, scrollToThreadID>>

\* A click on the resolve control of thread t.
clickResolve(t) ==
    /\ phase = "mounted"
    /\ t \in RenderedIds
    /\ event' = [op |-> "clickResolve",
                 arg |-> [call |-> ViewOf(t).resolveButton, thread |-> PairOf(t).thread]]
    /\ UNCHANGED <<phase, refreshVars, propVars, replyVars, view, page, threadHolders,
                   threadRequests, scrolls>>

\* The owner renders the view with another isResolved for thread t.
receiveResolved(t) ==
    /\ phase = "mounted"
    /\ \E i \in DOMAIN commentThreads :
          /\ commentThreads[i].thread.id = t
          /\ commentThreads' =
                 [commentThreads EXCEPT ![i].thread.isResolved = ~@]
    /\ render(summaries, commentThreads', postingToThreadID, commentTranslations,
              checkoutOp, threadIDsOpen,
              contextLines)
    /\ componentDidUpdate(scrollToThreadID, scrollToThreadID)
    /\ event' = [op |-> "receiveProps", arg |-> "commentThreads"]
    /\ UNCHANGED <<phase, refreshVars, summaries, postingToThreadID,
                   commentTranslations, checkoutOp, threadIDsOpen, pending,
                   threadRequests,
                   contextLines, scrollToThreadID>>

ProgressIds ==
    {ProgressThreadIds[i] : i \in DOMAIN ProgressThreadIds}

InitThreads ==
    /\ constructor
    /\ contextLines = 4
    /\ scrollToThreadID = Undefined
    /\ summaries = <<>>
    /\ threadIDsOpen \in SUBSET ProgressIds
    /\ commentThreads \in ResolvableThreadInputs
    /\ postingToThreadID = NullID
    /\ commentTranslations = NullMap
    /\ checkoutOp = [enabled |-> FALSE, why |-> CURRENT]

NextThreads ==
    \/ componentDidMount
    \/ \E t \in ProgressIds : toggleThread(t)
    \/ applyThreadRequest
    \/ \E t \in ProgressIds : clickResolve(t)
    \/ \E t \in ProgressIds : receiveResolved(t)

SpecThreads ==
    InitThreads /\ [][NextThreads]_vars

----------------------------------------------------------------------------
(* Reply drafts while threads get their first comments                     *)

\* The comment a thread receives at place k: shown, submitted, with its author.
PlainComment(t, k) ==
    CHOOSE c \in VariedComments(t, k) :
        ~c.isMinimized /\ c.state = "SUBMITTED" /\ c.author # NullID

DraftThreadInputs ==
    {<<Pair("t1", c1), Pair("t2", c2)>> :
        c1 \in {<<>>, <<PlainComment("t1", 1)>>},
        c2 \in {<<>>, <<PlainComment("t2", 1)>>}}

InitDrafts ==
    /\ constructor
    /\ contextLines = 4
    /\ scrollToThreadID = Undefined
    /\ summaries = <<>>
    /\ threadIDsOpen = {}
    /\ commentThreads \in DraftThreadInputs
    /\ postingToThreadID = NullID
    /\ commentTranslations = NullMap
    /\ checkoutOp = [enabled |-> FALSE, why |-> CURRENT]

NextDrafts ==
    \/ componentDidMount
    \/ \E t \in ThreadIds : attachEditor(t)
    \/ \E t \in ThreadIds, text \in Texts : typeText(t, text)
    \/ \E t \in ThreadIds : clickComment(t)
    \/ \E threadID \in ThreadIds \cup {Undefined} : submitCurrentComment(threadID)
    \/ \E k \in DOMAIN pending : didSubmitComment(k)
    \/ \E k \in DOMAIN pending : didFailComment(k)
    \/ \E t \in ThreadIds : \E k \in 1..2 : receiveComment(t, PlainComment(t, k))

SpecDrafts ==
    InitDrafts /\ [][NextDrafts]_vars

----------------------------------------------------------------------------
(* Patch previews                                                          *)

ContextLineInputs ==
    {2, 4, 8}

\* The owner renders the view with another contextLines.
receiveContextLines(lines) ==
    /\ phase = "mounted"
    /\ lines # contextLines
    /\ contextLines' = lines
    /\ render(summaries, commentThreads, postingToThreadID, commentTranslations,
              checkoutOp, threadIDsOpen, lines)
    /\ componentDidUpdate(scrollToThreadID, scrollToThreadID)
    /\ event' = [op |-> "receiveProps", arg |-> "contextLines"]
    /\ UNCHANGED <<phase, refreshVars, commentThreads, postingToThreadID,
                   commentTranslations, checkoutOp, summaries, threadIDsOpen,
                   pending, threadRequests, scrollToThreadID>>

InitPreview ==
    /\ constructor
    /\ contextLines \in ContextLineInputs
    /\ scrollToThreadID = Undefined
    /\ summaries = <<>>
    /\ threadIDsOpen = {}
    /\ commentThreads \in ThreadInputs
    /\ postingToThreadID = NullID
    /\ commentTranslations = NullMap
    /\ checkoutOp = [enabled |-> FALSE, why |-> CURRENT]

NextPreview ==
    \/ componentDidMount
    \/ \E lines \in ContextLineInputs : receiveContextLines(lines)

SpecPreview ==
    InitPreview /\ [][NextPreview]_vars

----------------------------------------------------------------------------
(* Scrolling to a thread                                                   *)

ScrollInputs ==
    ThreadIds \cup {NullID, Undefined}

\* The owner renders the view with another scrollToThreadID.
receiveScrollTo(id) ==
    /\ phase = "mounted"
    /\ id # scrollToThreadID
    /\ Len(scrolls) < MaxScrolls
    /\ scrollToThreadID' = id
    /\ render(summaries, commentThreads, postingToThreadID, commentTranslations,
              checkoutOp, threadIDsOpen, contextLines)
    /\ componentDidUpdate(scrollToThreadID, id)
    /\ event' = [op |-> "receiveProps", arg |-> "scrollToThreadID"]
    /\ UNCHANGED <<phase, refreshVars, commentThreads, postingToThreadID,
                   commentTranslations, checkoutOp, summaries, threadIDsOpen,
                   pending, threadRequests, contextLines>>

InitScroll ==
    /\ constructor
    /\ contextLines = 4
    /\ scrollToThreadID \in ScrollInputs
    /\ summaries = <<>>
    /\ threadIDsOpen = {}
    /\ commentThreads \in DraftThreadInputs
    /\ postingToThreadID = NullID
    /\ commentTranslations = NullMap
    /\ checkoutOp = [enabled |-> FALSE, why |-> CURRENT]

NextScroll ==
    \/ componentDidMount
    \/ \E id \in ScrollInputs : receiveScrollTo(id)
    \/ \E t \in ThreadIds : \E k \in 1..2 : receiveComment(t, PlainComment(t, k))

SpecScroll ==
    InitScroll /\ [][NextScroll]_vars

----------------------------------------------------------------------------
(* Properties                                                              *)

RootOf(t) ==
    PairOf(t).comments[1]

\* The refetches whose completion callback runs in the step.
CallbackRuns(i) ==
    /\ i \in DOMAIN refetches'
    /\ refetches'[i].done
    /\ (i \in DOMAIN refetches => ~refetches[i].done)

\* C1: a refresh click that arrives while isRefreshing is true calls no
\* refetch and leaves isRefreshing and the held subscriptions unchanged, and
\* at most one refetch is outstanding in every reachable state.
RefreshReentryGuard ==
    /\ [](Cardinality(Outstanding) <= 1)
    /\ [][(isRefreshing /\ event'.op = "refresh") =>
             /\ refetches' = refetches
             /\ isRefreshing' = isRefreshing
             /\ subs' = subs]_vars

RefreshIgnoredWhileBusy ==
    /\ phase = "mounted"
    /\ isRefreshing
    /\ event = [op |-> "refresh", arg |-> "ignored"]
    /\ Cardinality(Outstanding) = 1
    /\ Len(refetches) > 1

\* C2: the step that unmounts the view disposes every refresh subscription
\* that was started and whose completion callback has not run.
TeardownRelease ==
    [][(phase = "mounted" /\ phase' = "unmounted") =>
          \A i \in DOMAIN refetches :
              ~refetches[i].done => refetches'[i].disposed]_vars

UnmountedWhileRefreshing ==
    /\ phase = "unmounted"
    /\ Len(refetches) > 1
    /\ \E i \in DOMAIN refetches : ~refetches[i].done /\ refetches[i].disposed

\* C3: a refresh click with no refresh outstanding calls refetch once and
\* isRefreshing is true until the completion callback runs; once the callback
\* has run isRefreshing is false, so that a later click refetches again.
RefreshLifecycle ==
    [][/\ (event'.op = "refresh" /\ ~isRefreshing) =>
              /\ Len(refetches') = Len(refetches) + 1
              /\ (~refetches'[Len(refetches')].done => isRefreshing')
       /\ \A i \in DOMAIN refetches' : CallbackRuns(i) => ~isRefreshing']_vars

\* C4: while postingToThreadID names a thread every reply editor is read-only,
\* every Comment button is disabled and no step calls addSingleComment; while
\* it is null or not supplied the reply controls are enabled.
PostingGuard ==
    /\ [](\A i \in DOMAIN view :
             /\ postingToThreadID \in ThreadIds =>
                   (view[i].readOnly /\ view[i].commentDisabled)
             /\ postingToThreadID \in {NullID, Undefined} =>
                   (~view[i].readOnly /\ ~view[i].commentDisabled))
    /\ [][(postingToThreadID \in ThreadIds) => Len(pending') <= Len(pending)]_vars

\* C5: the failure callback of a submission sets the thread's draft to the
\* body that was submitted, whatever the draft holds by then, and makes no
\* further addSingleComment call.
FailureRestoresDraft ==
    [][event'.op = "didFailComment" =>
          LET call == event'.arg.call IN
          /\ replyHolders[call.threadID] # NoEditor =>
                replyHolders'[call.threadID] = call.body
          /\ Len(pending') = Len(pending) - 1]_vars

DraftRestoredOverOtherText ==
    /\ event.op = "didFailComment"
    /\ event.arg.call.body = "a"
    /\ event.arg.before = ""
    /\ replyHolders[event.arg.call.threadID] = "a"

\* C6: a reply submission for a thread, by button or by command, makes one
\* addSingleComment call whose body is the thread's draft ("" without an
\* editor), whose thread id is the thread's, and whose comment id, path and
\* position are those of the last comment of the thread.
ReplyAddressing ==
    [][(event'.op \in {"clickComment", "submitCommand"} /\ event'.arg # Undefined) =>
          LET t == event'.arg
              comments == PairOf(t).comments
              last == comments[Len(comments)]
          IN pending' = Append(pending,
                 [body |-> IF replyHolders[t] = NoEditor THEN "" ELSE replyHolders[t],
                  threadID |-> t,
                  replyTo |-> last.id,
                  path |-> last.path,
                  position |-> last.position])]_vars

RepliedToLastComment ==
    /\ event.op = "clickComment"
    /\ pending # <<>>
    /\ pending[Len(pending)] = [body |-> "a", threadID |-> "t1", replyTo |-> 1,
                                path |-> "file0", position |-> 11]

\* C7: a root comment whose position p is in its file's diffToFilePosition is
\* shown at diffToFilePosition[p], or at
\* fileTranslations[diffToFilePosition[p]].newPosition when the file has a
\* fileTranslations table and the pull request is the checked-out revision;
\* the position text is the text of that line number.
PositionMapped ==
    \A i \in DOMAIN view :
        LET rootComment == RootOf(view[i].id) IN
        (/\ ~commentTranslations.isNull
         /\ rootComment.position # Null
         /\ rootComment.path \in DOMAIN commentTranslations.map
         /\ rootComment.position \in
               DOMAIN commentTranslations.map[rootComment.path].diffToFilePosition)
        => LET table == commentTranslations.map[rootComment.path]
               adjusted == table.diffToFilePosition[rootComment.position]
           IN /\ view[i].lineNumber =
                    IF table.fileTranslations.isNull \/ checkoutOp.why # CURRENT
                    THEN adjusted
                    ELSE table.fileTranslations.map[adjusted].newPosition
              /\ view[i].positionText = ToString(view[i].lineNumber)

MappedThroughBothTables ==
    /\ phase = "mounted"
    /\ checkoutOp.why = CURRENT
    /\ \E i \in DOMAIN view : view[i].lineNumber = 17 /\ view[i].positionText = "17"

\* C8 as stated: every root comment whose position is null is shown with line
\* number null and the text "outdated".
OutdatedAlways ==
    \A i \in DOMAIN view :
        RootOf(view[i].id).position = Null =>
            (view[i].lineNumber = Null /\ view[i].positionText = "outdated")

\* C8 amended: when commentTranslations is not null, every root comment whose
\* position is null is shown with line number null and the text "outdated",
\* whatever the tables hold and whatever is checked out.
OutdatedWhenTablesSupplied ==
    \A i \in DOMAIN view :
        (~commentTranslations.isNull /\ RootOf(view[i].id).position = Null) =>
            (view[i].lineNumber = Null /\ view[i].positionText = "outdated")

OutdatedWithoutTableForPath ==
    /\ phase = "mounted"
    /\ ~commentTranslations.isNull
    /\ \E i \in DOMAIN view :
          /\ RootOf(view[i].id).position = Null
          /\ RootOf(view[i].id).path \notin DOMAIN commentTranslations.map
          /\ view[i].positionText = "outdated"

\* C9: when commentTranslations is null every root comment is shown with line
\* number null and an empty position text, and no table is looked up.
NoDataTranslation ==
    commentTranslations.isNull =>
        \A i \in DOMAIN view :
            /\ view[i].lineNumber = Null
            /\ view[i].positionText = ""
            /\ view[i].lookups = 0

NoDataWithPositionedRoot ==
    /\ phase = "mounted"
    /\ commentTranslations.isNull
    /\ \E i \in DOMAIN view :
          RootOf(view[i].id).position # Null /\ view[i].positionText = ""

\* C10: a thread whose root comment has position null shows the text
\* "outdated" (the tables being loaded) and neither of its navigation buttons
\* calls openFile or openDiff, whatever is checked out.
OutdatedCannotJump ==
    \A i \in DOMAIN view :
        (~commentTranslations.isNull /\ RootOf(view[i].id).position = Null) =>
            /\ view[i].positionText = "outdated"
            /\ ~(event.op \in {"openFile", "openDiff"} /\ event.arg.thread = view[i].id)

\* C11: Jump To File is disabled exactly while the checkout operation is
\* enabled (the pull request is not checked out), so openFile is called only
\* while it is not enabled, with the button's path and line; Open Diff calls
\* openDiff with the root comment's native path and its position parsed as an
\* integer, whatever the checkout state.
JumpGatedOnCheckout ==
    /\ \A i \in DOMAIN view : view[i].jumpDisabled = checkoutOp.enabled
    /\ event.op = "openFile" =>
          /\ ~checkoutOp.enabled
          /\ event.arg.thread \in RenderedIds
          /\ event.arg.path = ViewOf(event.arg.thread).jumpPath
          /\ event.arg.path = toNativePathSep(RootOf(event.arg.thread).path)
          /\ event.arg.line = ViewOf(event.arg.thread).jumpLine
    /\ event.op = "openDiff" =>
          /\ event.arg.thread \in RenderedIds
          /\ event.arg.path = toNativePathSep(RootOf(event.arg.thread).path)
          /\ event.arg.line = parseInt(DataAttr(RootOf(event.arg.thread).position))
          /\ RootOf(event.arg.thread).position # Null =>
                 event.arg.line = RootOf(event.arg.thread).position

OpenDiffWhileJumpDisabled ==
    /\ checkoutOp.enabled
    /\ event.op = "openDiff"
    /\ event.arg.line = 10
    /\ \A i \in DOMAIN view : view[i].jumpDisabled

\* C20: while the view is mounted, isRefreshing is true exactly when one
\* refresh subscription is held and false exactly when none is held.
BusyFlagMatchesSubscription ==
    phase = "mounted" =>
        /\ isRefreshing <=> (Cardinality(subs) = 1)
        /\ ~isRefreshing <=> (subs = {})

\* C12: of the supplied review summaries, one whose state is PENDING and one
\* whose state is COMMENTED with an empty body are not in the rendered list;
\* every other summary is in it exactly once, and the list is in input order.
SummaryFiltering ==
    phase = "mounted" /\ summaries # <<>> =>
        LET list == page.summaryList
            shown(i) == {j \in DOMAIN list : list[j].id = summaries[i].id}
        IN /\ \A i \in DOMAIN summaries :
                  IF \/ summaries[i].state = "PENDING"
                     \/ (summaries[i].state = "COMMENTED" /\ summaries[i].bodyHTML = "")
                  THEN shown(i) = {}
                  ELSE /\ Cardinality(shown(i)) = 1
                       /\ \A j \in shown(i) : list[j].body = summaries[i].bodyHTML
           /\ \A j \in DOMAIN list : \E i \in DOMAIN summaries : j \in shown(i)
           /\ \A i1, i2 \in DOMAIN summaries :
                  \A j1 \in shown(i1) : \A j2 \in shown(i2) :
                      i1 < i2 => j1 < j2

SummariesPartlyListed ==
    /\ phase = "mounted"
    /\ Len(summaries) = 3
    /\ summaries[1].state = "COMMENTED" /\ summaries[1].bodyHTML = ""
    /\ summaries[2].state = "COMMENTED" /\ summaries[2].bodyHTML # ""
    /\ summaries[3].state = "APPROVED" /\ summaries[3].bodyHTML = ""
    /\ Len(page.summaryList) = 2
    /\ page.summaryList[1].id = 2
    /\ page.summaryList[2].id = 3

\* C19: with no review summary and no comment thread the page shows the
\* empty state once and neither section; the Comments section is shown only
\* when at least one (thread, comments) pair is supplied.
EmptyStateAlone ==
    phase = "mounted" =>
        /\ (summaries = <<>> /\ commentThreads = <<>>) =>
               /\ page.emptyState = 1
               /\ ~page.summariesSection
               /\ ~page.commentsSection
        /\ page.commentsSection => Len(commentThreads) >= 1

EmptyStateShown ==
    /\ phase = "mounted"
    /\ summaries = <<>>
    /\ commentThreads = <<>>
    /\ event.op = "receiveProps"
    /\ page.emptyState = 1

\* The comments of the pair rendered as thread i of the view.
ShownAs(i) ==
    {j \in DOMAIN view : view[j].id = commentThreads[i].thread.id}

\* C14: once the view has rendered, a pair without comments is not in it and
\* has neither a thread holder nor a reply holder; every pair with comments is
\* in it exactly once, in input order, with its first comment as root and all
\* of its comments listed in sequence order.
NonEmptyThreadsDisplayed ==
    phase # "constructed" =>
        /\ \A i \in DOMAIN commentThreads :
              IF commentThreads[i].comments = <<>>
              THEN /\ ShownAs(i) = {}
                   /\ commentThreads[i].thread.id \notin threadHolders
                   /\ commentThreads[i].thread.id \notin DOMAIN replyHolders
              ELSE /\ Cardinality(ShownAs(i)) = 1
                   /\ \A j \in ShownAs(i) :
                         /\ view[j].rootComment = commentThreads[i].comments[1].id
                         /\ Len(view[j].comments) = Len(commentThreads[i].comments)
                         /\ \A k \in DOMAIN view[j].comments :
                               view[j].comments[k].id = commentThreads[i].comments[k].id
        /\ \A i1, i2 \in DOMAIN commentThreads :
              \A j1 \in ShownAs(i1) : \A j2 \in ShownAs(i2) : i1 < i2 => j1 < j2

\* C18: once the view has rendered, a minimized comment is shown as the
\* placeholder alone, without body, author or pending badge; any other comment
\* is shown with its body and is flagged pending exactly when its state is
\* PENDING.
CommentRenderState ==
    phase # "constructed" =>
        \A i \in DOMAIN commentThreads :
            \A k \in DOMAIN commentThreads[i].comments :
                LET comment == commentThreads[i].comments[k] IN
                /\ ShownAs(i) # {}
                /\ \A j \in ShownAs(i) :
                      LET shown == view[j].comments[k] IN
                      IF comment.isMinimized
                      THEN /\ shown.placeholder
                           /\ shown.body = Absent
                           /\ shown.author = Absent
                           /\ ~shown.pendingBadge
                      ELSE /\ ~shown.placeholder
                           /\ shown.body = comment.bodyHTML
                           /\ shown.pendingClass = (comment.state = "PENDING")
                           /\ shown.pendingBadge = (comment.state = "PENDING")

RECURSIVE ResolvedSum(_)
\* The number of pairs of a sequence whose thread is resolved.
ResolvedSum(threads) ==
    IF threads = <<>>
    THEN 0
    ELSE (IF Head(threads).thread.isResolved THEN 1 ELSE 0) + ResolvedSum(Tail(threads))

\* C13: for a mounted view given at least one pair, the progress indicator
\* is shown, its value is the number of pairs whose thread is resolved, its
\* maximum is the number of pairs, and 0 <= value <= maximum.
ResolvedCount ==
    (phase = "mounted" /\ commentThreads # <<>>) =>
        /\ page.commentsSection
        /\ page.resolved = ResolvedSum(commentThreads)
        /\ page.total = Len(commentThreads)
        /\ 0 <= page.resolved
        /\ page.resolved <= page.total

ResolvedOneOfThree ==
    /\ phase = "mounted"
    /\ Len(commentThreads) = 3
    /\ commentThreads[2].thread.isResolved
    /\ commentThreads[2].comments = <<>>
    /\ page.resolved = 1
    /\ page.total = 3

\* C15: a rendered thread is expanded exactly when its id is in the open set
\* supplied; a toggle of thread T appends one request, hideThreadID(T) if T is
\* expanded and showThreadID(T) if not, and changes nothing else; every
\* rendered thread can be toggled while the view is mounted; applying the
\* request of the toggle just made flips T and no other thread.
ThreadToggle ==
    /\ [](phase = "mounted" =>
             \A i \in DOMAIN view :
                 /\ view[i].isOpen = (view[i].id \in threadIDsOpen)
                 /\ Len(threadRequests) < MaxRequests => ENABLED toggleThread(view[i].id))
    /\ [][event'.op = "toggle" =>
             /\ threadRequests' =
                    Append(threadRequests,
                           [call |-> IF event'.arg \in threadIDsOpen
                                     THEN "hideThreadID" ELSE "showThreadID",
                            id |-> event'.arg])
             /\ threadIDsOpen' = threadIDsOpen
             /\ view' = view]_vars
    /\ [][(event.op = "toggle" /\ Len(threadRequests) = 1
              /\ event'.op = "applyThreadRequest") =>
             /\ (event.arg \in threadIDsOpen') # (event.arg \in threadIDsOpen)
             /\ threadIDsOpen' \ {event.arg} = threadIDsOpen \ {event.arg}
             /\ \A i \in DOMAIN view : \A j \in DOMAIN view' :
                    (view[i].id = event.arg /\ view'[j].id = event.arg) =>
                        view'[j].isOpen # view[i].isOpen]_vars

ThreadCollapsedByToggle ==
    /\ phase = "mounted"
    /\ event.op = "applyThreadRequest"
    /\ event.arg = [call |-> "hideThreadID", id |-> "t2"]
    /\ "t2" \in RenderedIds
    /\ ~ViewOf("t2").isOpen
    /\ "t2" \notin threadIDsOpen
    /\ "t1" \in threadIDsOpen

\* The resolution shown for each rendered thread.
DisplayedResolution ==
    [i \in DOMAIN view |-> [id |-> view[i].id, resolved |-> view[i].resolved]]

\* C16: the resolve control of an unresolved thread calls resolveThread with
\* the thread and that of a resolved thread calls unresolveThread with it;
\* such a call changes nothing the view holds or shows, and the resolution
\* shown changes only in a step in which the owner supplies props.
ResolutionDelegated ==
    /\ [](phase = "mounted" =>
             \A i \in DOMAIN view :
                 /\ view[i].resolved = PairOf(view[i].id).thread.isResolved
                 /\ view[i].resolveButton =
                        IF PairOf(view[i].id).thread.isResolved
                        THEN "unresolveThread" ELSE "resolveThread")
    /\ [][event'.op = "clickResolve" =>
             /\ event'.arg.call = IF event'.arg.thread.isResolved
                                  THEN "unresolveThread" ELSE "resolveThread"
             /\ event'.arg.thread = PairOf(event'.arg.thread.id).thread
             /\ UNCHANGED <<phase, refreshVars, propVars, replyVars, view, page,
                            threadHolders, threadRequests, scrolls>>]_vars
    /\ [][DisplayedResolution' # DisplayedResolution =>
             event'.op \in {"mount", "receiveProps"}]_vars

UnresolveRequested ==
    /\ phase = "mounted"
    /\ event.op = "clickResolve"
    /\ event.arg.call = "unresolveThread"
    /\ event.arg.thread.isResolved
    /\ \E i \in DOMAIN view : view[i].id = event.arg.thread.id /\ view[i].resolved

\* The thread a submission step is made for, NullID for any other step.
SubmissionFor(e) ==
    CASE e.op \in {"clickComment", "submitCommand"} -> e.arg
      [] e.op \in {"didSubmitComment", "didFailComment"} -> e.arg.call.threadID
      [] OTHER -> NullID

\* C17: every rendered thread id has a reply holder; a holder is created in
\* the render that first shows its thread and is kept, with its draft, by
\* every later render; a click on Comment, the submit command and the two
\* callbacks of a submission for one thread leave the drafts of the other
\* threads unchanged.
DraftsKeyedByThread ==
    /\ [](phase = "mounted" => RenderedIds \subseteq DOMAIN replyHolders)
    /\ [][/\ DOMAIN replyHolders \subseteq DOMAIN replyHolders'
          /\ (DOMAIN replyHolders' \ DOMAIN replyHolders) \subseteq
                 (RenderedIds' \ RenderedIds)
          /\ event'.op \in {"mount", "receiveProps"} =>
                 \A t \in DOMAIN replyHolders : replyHolders'[t] = replyHolders[t]
          /\ SubmissionFor(event') # NullID =>
                 \A t \in DOMAIN replyHolders \ {SubmissionFor(event')} :
                     replyHolders'[t] = replyHolders[t]]_vars

DraftKeptWhileOtherRestored ==
    /\ phase = "mounted"
    /\ event.op = "didFailComment"
    /\ event.arg.call.threadID = "t1"
    /\ event.arg.call.body = "a"
    /\ event.arg.before = ""
    /\ replyHolders["t1"] = "a"
    /\ "t2" \in DOMAIN replyHolders
    /\ replyHolders["t2"] = ""
    /\ Len(PairOf("t2").comments) = 2

\* C24: the empty state is shown exactly when the supplied sequence of
\* summaries is empty; a non-empty sequence shows the Summaries section and no
\* empty state, and when every summary of it is PENDING or COMMENTED with an
\* empty body the section lists nothing.
EmptyStateFollowsInput ==
    phase = "mounted" =>
        /\ page.emptyState = (IF summaries = <<>> THEN 1 ELSE 0)
        /\ page.summariesSection = (summaries # <<>>)
        /\ (\A i \in DOMAIN summaries :
               \/ summaries[i].state = "PENDING"
               \/ (summaries[i].state = "COMMENTED" /\ summaries[i].bodyHTML = ""))
              => page.summaryList = <<>>

SectionWithNothingListed ==
    /\ phase = "mounted"
    /\ Len(summaries) = 2
    /\ summaries[1].state = "PENDING"
    /\ summaries[2].state = "COMMENTED" /\ summaries[2].bodyHTML = ""
    /\ page.summariesSection
    /\ page.summaryList = <<>>
    /\ page.emptyState = 0

\* C23: a rendered thread has a patch preview exactly when its root comment's
\* position is not null; the preview is given the root comment's native path,
\* its raw position and contextLines; when no root position is null there are
\* as many previews as rendered threads.
PatchPreviewPerThread ==
    phase = "mounted" =>
        /\ \A i \in DOMAIN commentThreads : \A j \in ShownAs(i) :
              LET root == commentThreads[i].comments[1] IN
              /\ view[j].preview.shown = (root.position # Null)
              /\ view[j].preview.shown =>
                    /\ view[j].preview.fileName = toNativePathSep(root.path)
                    /\ view[j].preview.diffRow = root.position
                    /\ view[j].preview.maxRowCount = contextLines
        /\ (\A i \in DOMAIN commentThreads :
               commentThreads[i].comments # <<>> =>
                   commentThreads[i].comments[1].position # Null)
              => Cardinality({j \in DOMAIN view : view[j].preview.shown}) = Len(view)

PreviewForPositionedRootOnly ==
    /\ phase = "mounted"
    /\ event = [op |-> "receiveProps", arg |-> "contextLines"]
    /\ Len(view) = 2
    /\ view[1].preview = [shown |-> TRUE, fileName |-> "dir/file0", diffRow |-> 10,
                          maxRowCount |-> 8]
    /\ ~view[2].preview.shown
    /\ RootOf("t2").position = Null

\* C25: mounting scrolls to the thread named by scrollToThreadID when it is
\* set and that thread is rendered; a later update scrolls, once, exactly when
\* scrollToThreadID is set, differs from the value of the previous render and
\* names a rendered thread; no other step scrolls.
ScrollOncePerChange ==
    [][IF event'.op = "mount"
       THEN scrolls' = IF truthy(scrollToThreadID) /\ scrollToThreadID \in RenderedIds'
                       THEN Append(scrolls, scrollToThreadID)
                       ELSE scrolls
       ELSE scrolls' = IF /\ scrollToThreadID' # scrollToThreadID
                          /\ truthy(scrollToThreadID')
                          /\ scrollToThreadID' \in RenderedIds'
                       THEN Append(scrolls, scrollToThreadID')
                       ELSE scrolls]_vars

RenderedLaterWithoutScroll ==
    /\ phase = "mounted"
    /\ scrollToThreadID = "t2"
    /\ "t2" \in RenderedIds
    /\ event = [op |-> "receiveProps", arg |-> "commentThreads"]
    /\ scrolls = <<"t1">>

\* The text a submission reads from the reply holder of thread t.
DraftOf(t) ==
    IF replyHolders[t] = NoEditor THEN "" ELSE replyHolders[t]

\* C21: the submit command on the reply element of thread T makes one
\* addSingleComment call, for T, with T's draft and the id, path and position
\* of T's last comment, and touches no draft; on an element without thread id
\* it makes no call and returns null.
CommandSubmitsFocusedReply ==
    [][event'.op = "submitCommand" =>
          IF event'.arg = Undefined
          THEN /\ pending' = pending
               /\ event'.returned = NullID
               /\ replyHolders' = replyHolders
          ELSE /\ event'.arg \in {commentThreads[i].thread.id : i \in DOMAIN commentThreads}
               /\ Len(pending') = Len(pending) + 1
               /\ SubSeq(pending', 1, Len(pending)) = pending
               /\ LET call == pending'[Len(pending')]
                      comments == PairOf(event'.arg).comments
                  IN /\ call.threadID = event'.arg
                     /\ call.body = DraftOf(event'.arg)
                     /\ call.replyTo = comments[Len(comments)].id
                     /\ call.path = comments[Len(comments)].path
                     /\ call.position = comments[Len(comments)].position
               /\ event'.returned # NullID
               /\ replyHolders' = replyHolders]_vars

CommandSubmittedSecondThread ==
    /\ event.op = "submitCommand"
    /\ event.arg = "t2"
    /\ {"t1", "t2"} \subseteq DOMAIN replyHolders
    /\ replyHolders["t1"] = ""
    /\ replyHolders["t2"] = "a"
    /\ pending # <<>>
    /\ pending[Len(pending)].threadID = "t2"
    /\ pending[Len(pending)].body = "a"
    /\ pending[Len(pending)].replyTo = 3

\* C22: the success callback of a submission sets the submitting thread's
\* draft to the empty string, read-only editor or not, leaves the other drafts
\* alone and makes no call; the failure callback sets it to the submitted body
\* instead, so each callback applies its own effect only.
SuccessClearsDraft ==
    [][/\ event'.op = "didSubmitComment" =>
             LET call == event'.arg.call IN
             /\ replyHolders[call.threadID] # NoEditor =>
                    replyHolders'[call.threadID] = ""
             /\ \A t \in DOMAIN replyHolders \ {call.threadID} :
                    replyHolders'[t] = replyHolders[t]
             /\ Len(pending') = Len(pending) - 1
       /\ (event'.op = "didFailComment" /\ event'.arg.call.body # "") =>
             (replyHolders[event'.arg.call.threadID] # NoEditor =>
                  replyHolders'[event'.arg.call.threadID] # "")]_vars

DraftClearedWhileReadOnly ==
    /\ event.op = "didSubmitComment"
    /\ event.arg.before = "a"
    /\ event.arg.call.threadID \in RenderedIds
    /\ replyHolders[event.arg.call.threadID] = ""
    /\ postingToThreadID = event.arg.call.threadID
    /\ ViewOf(event.arg.call.threadID).readOnly

====
